---- MODULE Spec2Model ----
(***************************************************************************)
(* Model of bitcoinTask.py / emailBodyGen.py: the sampling loop of         *)
(* collect_data, the steps of main() that follow it, and the summary       *)
(* computed by get_email_body.                                             *)
(*                                                                         *)
(* Time is counted in seconds.  The wall clock `now` advances by the       *)
(* latency of each fetch and by each sleep.  Prices are integers (only     *)
(* their order matters to min/max/index).  A date string of the index is   *)
(* either well formed (it denotes a UTC second) or malformed.              *)
(***************************************************************************)
EXTENDS Integers, Sequences, FiniteSets, TLC

\* ---------------------------------------------------------------- bounds
MaxRunTime == 3      \* run_time_min ranges over 0..MaxRunTime
MaxSleep == 2        \* sleet_in_min ranges over 1..MaxSleep
MaxPrice == 2        \* a fetched price ranges over 1..MaxPrice
LatencyStep == 40    \* a fetch takes 0 or LatencyStep seconds

\* ------------------------------------------------------ program constants
SecPerMin == 60

TIMEZONE == "Asia/Jerusalem"
JSON_FILE_NAME == "bitcoin_prices.json"
GRAPH_FILE_NAME == "bitcoin_price_graph.png"

VARIABLES
    run_time_min,   \* argument of collect_data
    sleet_in_min,   \* argument of collect_data
    pc,             \* position in main() / collect_data()
    now,            \* time.time()
    start_time,     \* collect_data: start_time
    total_time,     \* collect_data: total_time
    data,           \* collect_data: data
    result,         \* collect_data: result of the last fetch_bpi call
    collected,      \* main: data, the value collect_data returned
    fetches,        \* number of fetch_bpi calls made
    failed,         \* number of fetch_bpi calls that failed
    missing,        \* number of fetches that delivered a null price
    sleeps,         \* number of time.sleep calls made
    latency,        \* total fetch latency so far, in seconds
    saved,          \* outcome of save_to_json
    times,          \* main: times
    prices,         \* main: prices
    plotted,        \* outcome of graph_plot
    body,           \* main: body, the outcome of get_email_body
    attached,       \* attachments added to msg, in order
    attempted,      \* attachments whose open() was attempted
    sendCalls,      \* number of send_email calls
    sent,           \* outcome of send_email
    errors,         \* logger.error records, in order
    uncaught        \* exception that left main(), or "none"

vars == << run_time_min, sleet_in_min, pc, now, start_time, total_time, data,
           result, collected, fetches, failed, missing, sleeps, latency,
           saved, times, prices, plotted, body, attached, attempted,
           sendCalls, sent, errors, uncaught >>

collectVars == << now, start_time, total_time, data, result, fetches, failed,
                  missing, sleeps, latency >>
mainVars == << saved, times, prices, plotted, body, attached, attempted,
               sendCalls, sent >>

\* ------------------------------------------------------------ Python values
None == [kind |-> "None"]
ListOf(s) == [kind |-> "list", val |-> s]
Pending == [kind |-> "pending"]

\* a price of the index as a Python value: a float, or None for JSON null
Float(p) == [kind |-> "float", v |-> p]

\* fetch_bpi: the two shapes it returns
BpiDict(date, price) == [kind |-> "dict", date |-> date, price |-> price]
BpiNoneTuple == [kind |-> "tuple"]

\* A date string of the index: well formed ISO 8601 for UTC second utc, or not.
IsoDate(utc) == [iso |-> TRUE, utc |-> utc]
BadDate == [iso |-> FALSE, utc |-> 0]

\* convert_utc_to_timezone: the instant is kept and the zone attached;
\* a string fromisoformat() rejects is logged and None returned.
convert_utc_to_timezone(utc_time_str, target_timezone) ==
    IF utc_time_str.iso
    THEN [kind |-> "datetime", utc |-> utc_time_str.utc, tz |-> target_timezone]
    ELSE None

\* total_time = run_time_min * 60
TotalSecondsNoScale(run) == run
TotalSeconds(run) == run * SecPerMin

\* time.sleep(sleet_in_min * 60)
SleepSeconds(sleet) == sleet * SecPerMin

\* while time.time() - start_time < total_time
LoopCondLe(elapsed, total) == elapsed <= total
LoopCondDoWhile(elapsed, total) == elapsed < total \/ elapsed = 0
LoopCond(elapsed, total) == elapsed < total

\* except Exception: logger.error(...); return None
CollectExceptPartial(d) == ListOf(d)
CollectExcept(d) == None

\* ------------------------------------------------------------ list helpers
\* min(prices) / max(prices): a left-to-right scan keeping the first extreme
RECURSIVE ScanMin(_, _, _)
ScanMin(s, i, best) ==
    IF i > Len(s) THEN best
    ELSE ScanMin(s, i + 1, IF s[i] < best THEN s[i] ELSE best)
PyMin(s) == ScanMin(s, 2, s[1])

RECURSIVE ScanMax(_, _, _)
ScanMax(s, i, best) ==
    IF i > Len(s) THEN best
    ELSE ScanMax(s, i + 1, IF s[i] > best THEN s[i] ELSE best)
PyMax(s) == ScanMax(s, 2, s[1])

\* prices.index(x): index of the first element equal to x (1-based here)
RECURSIVE ScanIndex(_, _, _)
ScanIndex(s, x, i) ==
    IF i > Len(s) THEN 0
    ELSE IF s[i] = x THEN i ELSE ScanIndex(s, x, i + 1)
RECURSIVE ScanIndexLast(_, _, _)
ScanIndexLast(s, x, i) ==
    IF i < 1 THEN 0
    ELSE IF s[i] = x THEN i ELSE ScanIndexLast(s, x, i - 1)
PyIndexLast(s, x) == ScanIndexLast(s, x, Len(s))
PyIndex(s, x) == ScanIndex(s, x, 1)

RECURSIVE SumSeq(_)
SumSeq(s) == IF s = << >> THEN 0 ELSE s[1] + SumSeq(Tail(s))
RECURSIVE SumSq(_)
SumSq(s) == IF s = << >> THEN 0 ELSE s[1] * s[1] + SumSq(Tail(s))

\* ------------------------------------------------------------ get_email_body
\* max()/min() of an empty list raise ValueError; otherwise the summary.
\* mean is sum/n, the population variance (n*sumsq - sum^2)/n^2.
Raised(exc) == [kind |-> "raise", exc |-> exc]
NoBody == [kind |-> "none"]
Report(total, ts, ps) ==
    LET max_price == PyMax(ps)
        min_price == PyMin(ps)
    IN  [kind |-> "report",
         total_run_time_min |-> total,
         max_price |-> max_price,
         max_time |-> ts[PyIndex(ps, max_price)],
         min_price |-> min_price,
         min_time |-> ts[PyIndex(ps, min_price)],
         mean |-> << SumSeq(ps), Len(ps) >>,
         variance |-> << Len(ps) * SumSq(ps) - SumSeq(ps) * SumSeq(ps),
                         Len(ps) * Len(ps) >>]
get_email_body_lenient(total, ts, ps) ==
    IF ps = << >>
    THEN [kind |-> "report", total_run_time_min |-> total,
          max_price |-> 0, max_time |-> None, min_price |-> 0,
          min_time |-> None, mean |-> << 0, 1 >>, variance |-> << 0, 1 >>]
    ELSE Report(total, ts, ps)
get_email_body(total, ts, ps) ==
    IF ps = << >> THEN Raised("ValueError") ELSE Report(total, ts, ps)

\* ------------------------------------------------------------ initial state
Init ==
    /\ run_time_min \in 0..MaxRunTime
    /\ sleet_in_min \in 1..MaxSleep
    /\ pc = "collect_data"
    /\ now = 0
    /\ start_time = 0
    /\ total_time = 0
    /\ data = << >>
    /\ result = Pending
    /\ collected = Pending
    /\ fetches = 0
    /\ failed = 0
    /\ missing = 0
    /\ sleeps = 0
    /\ latency = 0
    /\ saved = "no"
    /\ times = << >>
    /\ prices = << >>
    /\ plotted = [kind |-> "no"]
    /\ body = NoBody
    /\ attached = << >>
    /\ attempted = << >>
    /\ sendCalls = 0
    /\ sent = "no"
    /\ errors = << >>
    /\ uncaught = "none"

\* ------------------------------------------------------------ collect_data
\* lines 115-119: data = [], start_time = time.time(), total_time = ...
CollectStart ==
    /\ pc = "collect_data"
    /\ data' = << >>
    /\ start_time' = now
    /\ total_time' = TotalSeconds(run_time_min)
    /\ pc' = "while"
    /\ UNCHANGED << run_time_min, sleet_in_min, now, result, collected,
                    fetches, failed, missing, sleeps, latency, errors,
                    uncaught >>
    /\ UNCHANGED mainVars

\* line 121 and, when the loop ends, lines 137-140: return data
LoopTest ==
    /\ pc = "while"
    /\ IF LoopCond(now - start_time, total_time)
       THEN /\ pc' = "fetch"
            /\ UNCHANGED collected
       ELSE /\ pc' = "save_to_json"
            /\ collected' = ListOf(data)
    /\ UNCHANGED << run_time_min, sleet_in_min, errors, uncaught >>
    /\ UNCHANGED collectVars
    /\ UNCHANGED mainVars

\* line 129, fetch_bpi(url): the request takes lat seconds and either
\* yields a dict with the date and the price (null when the index says
\* so), or fails, is logged and yields the pair (None, None).
FetchBpi ==
    /\ pc = "fetch"
    /\ \E lat \in {0, LatencyStep} :
         /\ now' = now + lat
         /\ latency' = latency + lat
         /\ \/ \E price \in 1..MaxPrice, date \in {IsoDate(now + lat), BadDate} :
                 /\ result' = BpiDict(date, Float(price))
                 /\ UNCHANGED << failed, missing, errors >>
            \/ /\ result' = BpiDict(IsoDate(now + lat), None)
               /\ missing' = missing + 1
               /\ UNCHANGED << failed, errors >>
            \/ /\ result' = BpiNoneTuple
               /\ failed' = failed + 1
               /\ errors' = Append(errors, "fetch_bpi")
               /\ UNCHANGED missing
    /\ fetches' = fetches + 1
    /\ pc' = "unpack"
    /\ UNCHANGED << run_time_min, sleet_in_min, start_time, total_time, data,
                    collected, sleeps, uncaught >>
    /\ UNCHANGED mainVars

\* lines 130-132: result["date"], result["price"] raise TypeError on the
\* tuple, which the except clause of collect_data (142-144) turns into
\* its return value; otherwise a sample is appended when price is not None.
Unpack ==
    /\ pc = "unpack"
    /\ IF result.kind = "tuple"
       THEN /\ errors' = Append(errors, "collect_data")
            /\ collected' = CollectExcept(data)
            /\ pc' = "save_to_json"
            /\ UNCHANGED data
       ELSE /\ data' =
                IF result.price # None
                THEN Append(data,
                        [time |-> convert_utc_to_timezone(result.date, TIMEZONE),
                         price |-> result.price.v])
                ELSE data
            /\ errors' =
                IF result.price # None /\ ~result.date.iso
                THEN Append(errors, "convert_utc_to_timezone")
                ELSE errors
            /\ pc' = "sleep"
            /\ UNCHANGED collected
    /\ UNCHANGED << run_time_min, sleet_in_min, now, start_time, total_time,
                    result, fetches, failed, missing, sleeps, latency,
                    uncaught >>
    /\ UNCHANGED mainVars

\* line 135: time.sleep(sleet_in_min * 60)
Sleep ==
    /\ pc = "sleep"
    /\ now' = now + SleepSeconds(sleet_in_min)
    /\ sleeps' = sleeps + 1
    /\ pc' = "while"
    /\ UNCHANGED << run_time_min, sleet_in_min, start_time, total_time, data,
                    result, collected, fetches, failed, missing, latency,
                    errors, uncaught >>
    /\ UNCHANGED mainVars

\* ------------------------------------------------------------ main
\* line 240, save_to_json(data, ...): the write succeeds or fails; a failure
\* is logged and None returned, which main ignores.
SaveToJsonRaises ==
    /\ pc = "save_to_json"
    /\ \/ /\ saved' = "ok"
          /\ pc' = "extract"
          /\ UNCHANGED uncaught
       \/ /\ saved' = "fail"
          /\ uncaught' = "OSError"
          /\ pc' = "crashed"
    /\ UNCHANGED << run_time_min, sleet_in_min, collected, times, prices,
                    plotted, body, attached, attempted, sendCalls, sent,
                    errors >>
    /\ UNCHANGED collectVars
SaveToJson ==
    /\ pc = "save_to_json"
    /\ \/ /\ saved' = "ok"
          /\ UNCHANGED errors
       \/ /\ saved' = "fail"
          /\ errors' = Append(errors, "save_to_json")
    /\ pc' = "extract"
    /\ UNCHANGED << run_time_min, sleet_in_min, collected, times, prices,
                    plotted, body, attached, attempted, sendCalls, sent,
                    uncaught >>
    /\ UNCHANGED collectVars

\* lines 243-244: the comprehensions iterate data; None is not iterable
\* and the TypeError leaves main.
Extract ==
    /\ pc = "extract"
    /\ IF collected.kind = "list"
       THEN /\ times' = [i \in 1..Len(collected.val) |-> collected.val[i].time]
            /\ prices' = [i \in 1..Len(collected.val) |-> collected.val[i].price]
            /\ pc' = "graph_plot"
            /\ UNCHANGED uncaught
       ELSE /\ uncaught' = "TypeError"
            /\ pc' = "crashed"
            /\ UNCHANGED << times, prices >>
    /\ UNCHANGED << run_time_min, sleet_in_min, collected, saved, plotted,
                    body, attached, attempted, sendCalls, sent, errors >>
    /\ UNCHANGED collectVars

\* line 245, graph_plot: min()/max() of an empty list raise inside its try;
\* otherwise the extremes are marked at their first index and the figure is
\* written, which succeeds or fails.  Every failure is logged, None returned.
GraphPlot ==
    /\ pc = "graph_plot"
    /\ \/ /\ prices # << >>
          /\ plotted' = [kind |-> "ok",
                         min_index |-> PyIndex(prices, PyMin(prices)),
                         max_index |-> PyIndex(prices, PyMax(prices))]
          /\ UNCHANGED errors
       \/ /\ plotted' = [kind |-> "fail"]
          /\ errors' = Append(errors, "graph_plot")
    /\ pc' = "get_email_body"
    /\ UNCHANGED << run_time_min, sleet_in_min, collected, saved, times,
                    prices, body, attached, attempted, sendCalls, sent,
                    uncaught >>
    /\ UNCHANGED collectVars

\* lines 249-254: body = get_email_body(...), outside any try
EmailBody ==
    /\ pc = "get_email_body"
    /\ LET b == get_email_body(run_time_min, times, prices)
       IN  IF b.kind = "raise"
           THEN /\ uncaught' = b.exc
                /\ pc' = "crashed"
                /\ UNCHANGED body
           ELSE /\ body' = b
                /\ pc' = "attach"
                /\ UNCHANGED uncaught
    /\ UNCHANGED << run_time_min, sleet_in_min, collected, saved, times,
                    prices, plotted, attached, attempted, sendCalls, sent,
                    errors >>
    /\ UNCHANGED collectVars

\* lines 257-270: one turn of the loop over the attachments; open() of the
\* file succeeds and the part is attached, or fails and is logged.
attachments == << JSON_FILE_NAME, GRAPH_FILE_NAME >>
Attach ==
    /\ pc = "attach"
    /\ LET attachment == attachments[Len(attempted) + 1]
       IN  /\ attempted' = Append(attempted, attachment)
           /\ \/ /\ attached' = Append(attached, attachment)
                 /\ UNCHANGED errors
              \/ /\ errors' = Append(errors, "attach")
                 /\ UNCHANGED attached
    /\ pc' = IF Len(attempted') = Len(attachments) THEN "send_email" ELSE "attach"
    /\ UNCHANGED << run_time_min, sleet_in_min, collected, saved, times,
                    prices, plotted, body, sendCalls, sent, uncaught >>
    /\ UNCHANGED collectVars

\* line 273, send_email: the transport succeeds or fails; a failure is
\* logged and None returned.
SendEmail ==
    /\ pc = "send_email"
    /\ sendCalls' = sendCalls + 1
    /\ \/ /\ sent' = "ok"
          /\ UNCHANGED errors
       \/ /\ sent' = "fail"
          /\ errors' = Append(errors, "send_email")
    /\ pc' = "done"
    /\ UNCHANGED << run_time_min, sleet_in_min, collected, saved, times,
                    prices, plotted, body, attached, attempted, uncaught >>
    /\ UNCHANGED collectVars

Next ==
    \/ CollectStart
    \/ LoopTest
    \/ FetchBpi
    \/ Unpack
    \/ Sleep
    \/ SaveToJson
    \/ Extract
    \/ GraphPlot
    \/ EmailBody
    \/ Attach
    \/ SendEmail

Spec == Init /\ [][Next]_vars

\* The interpreter always takes the next step of a run that has not ended.
FairSpec == Spec /\ WF_vars(Next)
\* ------------------------------------------------------------ properties
CollectReturned == collected # Pending
ReturnedNormally == collected.kind = "list"
Interrupted == \E i \in 1..Len(errors) : errors[i] = "collect_data"
Elapsed == now - start_time
CeilDiv(a, b) == (a + b - 1) \div b
NoMiss == failed = 0 /\ missing = 0

\* C1 (as claimed): a failed fetch does not end the loop: collect_data
\* still sleeps after it, runs the remaining ticks until the duration has
\* elapsed and returns the list of the samples that were fetched.
C1_FailedFetchSkipped ==
    (CollectReturned /\ failed > 0) =>
        /\ collected.kind = "list"
        /\ sleeps = fetches
        /\ Elapsed >= total_time
        /\ Len(collected.val) = fetches - failed - missing

\* C2 (as claimed): an exception that interrupts the loop after k samples
\* makes collect_data return exactly those k samples.
C2_PartialOnInterrupt ==
    Interrupted => collected = ListOf(data)

\* C2 (amended): an exception that interrupts the loop after k >= 0 samples
\* makes collect_data return None, whatever k is; the samples gathered so
\* far are not returned.
C2_NoneOnInterrupt ==
    Interrupted => (collected = None /\ collected # ListOf(data))

C2_Witness ==
    Interrupted /\ Len(data) >= 1 /\ pc = "save_to_json"

\* C3 (as claimed): no failure leaves main() as an uncaught exception.
C3_NoUnhandledFault ==
    uncaught = "none" /\ pc # "crashed"

\* C4 (as claimed): when no fetch fails the series holds
\* floor(duration / interval) samples, none when duration < interval.
C4_FloorCount ==
    (ReturnedNormally /\ NoMiss) =>
        /\ Len(collected.val) = run_time_min \div sleet_in_min
        /\ (run_time_min < sleet_in_min => collected.val = << >>)

\* C4 (amended): when every fetch delivers a price the series holds one
\* sample per tick; that is at most ceil(duration / interval), exactly
\* ceil(duration / interval) when fetches take no time, and the series is
\* empty only when duration = 0.
C4_CeilCount ==
    (ReturnedNormally /\ NoMiss) =>
        /\ Len(collected.val) = fetches
        /\ Len(collected.val) <= CeilDiv(run_time_min, sleet_in_min)
        /\ (latency = 0 =>
              Len(collected.val) = CeilDiv(run_time_min, sleet_in_min))
        /\ (collected.val = << >> <=> run_time_min = 0)

C4_Witness ==
    /\ ReturnedNormally /\ NoMiss /\ latency = 0
    /\ run_time_min = 3 /\ sleet_in_min = 2
    /\ Len(collected.val) = 2

\* C5: with an empty series get_email_body raises, no report is rendered
\* and send_email is never called; with one or more samples the report is
\* produced and the send attempted.
C5_EmptySeriesNoReport ==
    /\ (ReturnedNormally /\ collected.val = << >>) =>
          /\ body = NoBody
          /\ sendCalls = 0
          /\ pc \notin {"attach", "send_email", "done"}
          /\ (pc = "crashed" => uncaught = "ValueError")
    /\ (ReturnedNormally /\ collected.val # << >>) =>
          /\ pc # "crashed"
          /\ (pc \in {"attach", "send_email", "done"} => body.kind = "report")
          /\ (pc = "done" => sendCalls = 1)

C5_Witness ==
    /\ ReturnedNormally /\ collected.val = << >> /\ fetches >= 1
    /\ pc = "crashed" /\ uncaught = "ValueError"

\* C6: with a non-empty series, whatever fails among save_to_json,
\* graph_plot and the opening of the attachments, main calls send_email
\* exactly once, after the snapshot and the chart writes were attempted.
C6_PersistenceDoesNotBlockSend ==
    (ReturnedNormally /\ collected.val # << >>) =>
        /\ pc # "crashed"
        /\ sendCalls <= 1
        /\ (pc = "done" => sendCalls = 1)
        /\ (sendCalls > 0 =>
              /\ saved # "no"
              /\ plotted.kind # "no"
              /\ attempted = attachments)

C6_Witness ==
    /\ pc = "done" /\ sendCalls = 1
    /\ saved = "fail" /\ plotted.kind = "fail" /\ attached = << >>

\* C7: the reported minimum and maximum are the least and the greatest
\* price, and the reported time of each is the timestamp of the first
\* sample in collection order that has that price; graph_plot marks the
\* same samples.
IsLeast(m, ps) == (\E i \in 1..Len(ps) : ps[i] = m) /\ (\A i \in 1..Len(ps) : m <= ps[i])
IsGreatest(m, ps) == (\E i \in 1..Len(ps) : ps[i] = m) /\ (\A i \in 1..Len(ps) : m >= ps[i])
FirstAt(i, m, ps) == i \in 1..Len(ps) /\ ps[i] = m /\ (\A j \in 1..(i - 1) : ps[j] # m)
C7_ExtremesFirstOccurrence ==
    /\ body.kind = "report" =>
          /\ IsLeast(body.min_price, prices)
          /\ IsGreatest(body.max_price, prices)
          /\ \E i \in 1..Len(prices) :
                FirstAt(i, body.min_price, prices) /\ body.min_time = times[i]
          /\ \E i \in 1..Len(prices) :
                FirstAt(i, body.max_price, prices) /\ body.max_time = times[i]
    /\ plotted.kind = "ok" =>
          /\ \E m \in 1..MaxPrice :
                IsLeast(m, prices) /\ FirstAt(plotted.min_index, m, prices)
          /\ \E m \in 1..MaxPrice :
                IsGreatest(m, prices) /\ FirstAt(plotted.max_index, m, prices)

C7_Witness ==
    /\ body.kind = "report"
    /\ \E i, j \in 1..Len(prices) :
          /\ i < j
          /\ prices[i] = body.min_price /\ prices[j] = body.min_price
          /\ times[i] # times[j]
    /\ \E i, j \in 1..Len(prices) :
          /\ i < j
          /\ prices[i] = body.max_price /\ prices[j] = body.max_price
          /\ times[i] # times[j]

\* C8: with duration 0 and a positive interval collect_data returns an
\* empty series and neither fetches nor sleeps.
C8_ZeroDuration ==
    run_time_min = 0 =>
        /\ fetches = 0
        /\ sleeps = 0
        /\ now = start_time
        /\ (CollectReturned => collected = ListOf(<< >>))

C8_Witness ==
    run_time_min = 0 /\ CollectReturned /\ pc = "save_to_json"

\* C9 (as claimed): no sample of the series has a None time.
C9_SampleTimeNotNull ==
    \A i \in 1..Len(data) : data[i].time # None

\* C10: collect_data eventually returns; when it returns its list the
\* elapsed time is at least the duration, as many sleeps as fetches were
\* made, and, fetches taking no time, the elapsed time is the smallest
\* multiple of the interval that is >= the duration.
C10_ReturnsAfterDuration ==
    /\ <>CollectReturned
    /\ [](ReturnedNormally =>
            /\ Elapsed >= total_time
            /\ sleeps = fetches
            /\ (latency = 0 =>
                  /\ Elapsed = CeilDiv(total_time, SleepSeconds(sleet_in_min))
                                 * SleepSeconds(sleet_in_min)
                  /\ Elapsed - total_time < SleepSeconds(sleet_in_min)))

C10_Witness ==
    /\ ReturnedNormally /\ latency = 0 /\ fetches >= 2
    /\ Elapsed > total_time
====
